---- MODULE Spec2Model ----
(***************************************************************************)
(* The container store of the executor (GardenStore): Create, Run, Stop,   *)
(* Destroy, the per-container step process started by runStepProcess, and  *)
(* the periodic reconciler TrackContainers, over a container host (garden) *)
(* whose containers carry the executor:owner, executor:state and           *)
(* executor:result properties.                                             *)
(*                                                                         *)
(* The store's API is called from the caller threads Threads (calls[t] is  *)
(* the call thread t is in, or the last one it made); a call of Run that   *)
(* passes the state check starts a step process (procs[p]).  Each host RPC *)
(* is one step, so that calls, step processes and the reconciler           *)
(* interleave between any two RPCs, as goroutines do.                      *)
(*                                                                         *)
(* Beside the store run the health supervisor (gardenhealth.Runner), which *)
(* probes the host and publishes its health to the executor client, and    *)
(* the ExecuteActions of the run-once handler with their action runners.   *)
(***************************************************************************)
EXTENDS Naturals, Sequences, FiniteSets, TLC

\* Number of API calls made on the store in one behaviour.
MaxCalls == 3

\* Number of caller threads: the calls in progress at a time.
MaxThreads == 2

\* Number of step processes started in one behaviour.
MaxProcs == 2

\* Number of health checks the Runner starts in one behaviour.
MaxProbes == 5

\* Number of ExecuteActions performed in one behaviour.
MaxActions == 2

\* The caller threads.
Threads == 1..MaxThreads

\* The step processes (their handles).
ProcIds == 1..MaxProcs

\* The guids the callers use.
Guids == {"g1"}

\* executor.State values, in lifecycle order.
StateReserved == "reserved"

StateInitializing == "initializing"

StateCreated == "created"

StateRunning == "running"

StateCompleted == "completed"

States == {StateReserved, StateInitializing, StateCreated, StateRunning, StateCompleted}

\* The states of the records callers pass to Create and Run.
RecordStates == {StateInitializing, StateCreated, StateCompleted}

\* Position of a state in the lifecycle Reserved -> ... -> Completed.
StateRank(s) ==
    CASE s = StateReserved -> 0
      [] s = StateInitializing -> 1
      [] s = StateCreated -> 2
      [] s = StateRunning -> 3
      [] s = StateCompleted -> 4
      [] OTHER -> 0

\* Error values (err.Error() strings).  Nil is a nil error.
Nil == "nil"

ErrInvalidTransition == "invalid state transition"

ErrContainerNotFound == "container not found"

ErrGarden == "garden error"

ErrStep == "step failed"

ContainerOwnerName == "executor"

\* No entry in runningProcesses / no process handle.
NoProcess == 0

\* A guid with no container on the host.
NoContainer == [exists |-> FALSE, owner |-> "", state |-> "", result |-> ""]

\* executor.ContainerRunResult{}
EmptyResult == [Failed |-> FALSE, FailureReason |-> ""]

FailedResult(reason) == [Failed |-> TRUE, FailureReason |-> reason]

\* json.Marshal(executor.ContainerRunResult)
MarshalResult(r) ==
    "{\"Failed\":" \o (IF r.Failed THEN "true" ELSE "false")
        \o ",\"FailureReason\":\"" \o r.FailureReason \o "\"}"

VARIABLES
    host,               \* garden: guid -> container (its properties)
    tracker,            \* InitializedTracker: guid -> tracked state, "" if untracked
    runningProcesses,   \* store.runningProcesses: guid -> process handle
    procs,              \* the step processes, by handle
    calls,              \* per caller thread: its call's position and arguments
    returned,           \* the call that returned in the last step, with its return value
    ncalls,             \* the number of calls made so far
    events,             \* everything passed to eventEmitter.EmitEvent, in order
    reconciler,         \* the TrackContainers process
    runner,             \* the gardenhealth Runner process
    setHealthyCalls,    \* the arguments of the calls of executorClient.SetHealthy, in order
    observed,           \* the health statuses the Runner observed, in order
    actions             \* the ExecuteActions, their inner action runners and records

\* The store, and what it acts on.
storeVars ==
    <<host, tracker, runningProcesses, procs, calls, returned, ncalls, events, reconciler>>

\* The health supervisor.
healthVars == <<runner, setHealthyCalls, observed>>

vars == <<storeVars, healthVars, actions>>

IdleCall ==
    [pc |-> "idle", op |-> "", guid |-> "", st |-> "", mon |-> FALSE,
     blocks |-> FALSE, proc |-> NoProcess]

\* No call returned in the last step.
NoReturn == [op |-> "", guid |-> "", st |-> "", proc |-> NoProcess, ret |-> ""]

UnbornProc ==
    [pc |-> "unborn", guid |-> "", mon |-> FALSE, blocks |-> FALSE, sig |-> "none",
     hsr |-> "empty", step |-> "idle", err |-> "", result |-> EmptyResult]

\* gardenhealth.HealthcheckTimeoutError{}
ErrHealthcheckTimeout == "healthcheck timeout"

\* A gardenhealth.UnrecoverableError
ErrUnrecoverable == "unrecoverable"

\* What checker.Healthcheck returns: nil, an error, an UnrecoverableError.
ProbeOutcomes == {"ok", "recoverable", "unrecoverable"}

\* The Runner before ifrit.Background starts it.  probe is the health check
\* under way ("running"), or its outcome once it has returned and not been
\* handled yet; published says whether SetHealthy was ever called and healthy
\* is its last argument.
NewRunner ==
    [pc |-> "new", ready |-> FALSE, signaled |-> FALSE, probe |-> "none", nprobes |-> 0,
     published |-> FALSE, healthy |-> FALSE, err |-> ""]

\* The ExecuteActions.
ActionIds == 1..MaxActions

\* The error of a failed inner action.
ErrAction == "action failed"

\* The records (models.RunOnce: Failed, FailureReason) an action starts with.
RunOnces ==
    {[Failed |-> FALSE, FailureReason |-> ""],
     [Failed |-> TRUE, FailureReason |-> "earlier failure"]}

\* An ExecuteAction before Perform: runOnce is its record and runOnce0 the
\* record as Perform found it; actionResult is the channel of capacity 1 the
\* inner action runner writes to; result is what Perform wrote to its result
\* channel.
NewAction ==
    [pc |-> "new", runOnce |-> [Failed |-> FALSE, FailureReason |-> ""],
     runOnce0 |-> [Failed |-> FALSE, FailureReason |-> ""],
     inner |-> "idle", blocks |-> FALSE, innerCancelled |-> FALSE, innerErr |-> "",
     actionResult |-> "empty", err |-> "", cancelCalled |-> FALSE, result |-> <<>>]

\* The container exchanger.CreateInGarden leaves on the host.
CreatedContainer ==
    [exists |-> TRUE, owner |-> ContainerOwnerName, state |-> StateCreated, result |-> ""]

\* After NewGardenStore: no step process, no call yet.  The host either has no
\* container for a guid or one that an earlier Create left, tracked.
Init ==
    /\ host \in [Guids -> {NoContainer, CreatedContainer}]
    /\ tracker = [g \in Guids |-> IF host[g].exists THEN StateCreated ELSE ""]
    /\ runningProcesses = [g \in Guids |-> NoProcess]
    /\ procs = [p \in ProcIds |-> UnbornProc]
    /\ calls = [t \in Threads |-> IdleCall]
    /\ returned = NoReturn
    /\ ncalls = 0
    /\ events = <<>>
    /\ reconciler = [pc |-> "wait", signaled |-> FALSE, err |-> FALSE,
                     listed |-> [g \in Guids |-> ""], ret |-> ""]
    /\ runner = NewRunner
    /\ setHealthyCalls = <<>>
    /\ observed = <<>>
    /\ actions = [a \in ActionIds |-> NewAction]

(***************************************************************************)
(* The host (garden client).                                               *)
(***************************************************************************)

\* Outcomes of an RPC on guid's container: it fails when the container is
\* gone, and may fail for the host's own reasons.
HostOutcomes(g) == IF host[g].exists THEN {TRUE, FALSE} ELSE {FALSE}

\* gardenContainer.SetProperty(key, value) that succeeded.
SetProperty(g, key, value) == [host EXCEPT ![g][key] = value]

\* The call op(guid, record in state st) as it starts on a thread.
NewCall(op, g, st, mon, blocks) ==
    [pc |-> "start", op |-> op, guid |-> g, st |-> st, mon |-> mon, blocks |-> blocks,
     proc |-> NoProcess]

\* A caller may start a call on thread c: c is the first free thread (threads
\* are interchangeable) and the behaviour's calls are not used up.
Callable(c) ==
    /\ calls[c].pc = "idle"
    /\ \A d \in Threads : d < c => calls[d].pc # "idle"
    /\ ncalls < MaxCalls

\* Thread c's call returns ret: the thread is free again.
Return(c, call, ret) ==
    /\ calls' = [calls EXCEPT ![c] = IdleCall]
    /\ returned' = [op |-> call.op, guid |-> call.guid, st |-> call.st,
                    proc |-> call.proc, ret |-> ret]

\* Thread c's call goes on to position pc.
Goto(c, call, pc) ==
    /\ calls' = [calls EXCEPT ![c] = [call EXCEPT !.pc = pc]]
    /\ returned' = NoReturn

At(c, op, pc) == calls[c].op = op /\ calls[c].pc = pc

(***************************************************************************)
(* Events and the two transitions                                          *)
(***************************************************************************)

\* An emitter that delivers every event twice.
EmitEventTwice(type, g, src) ==
    Append(Append(events, [type |-> type, guid |-> g, src |-> src]),
           [type |-> type, guid |-> g, src |-> src])

\* store.eventEmitter.EmitEvent(executor.NewContainer<type>Event(container)),
\* emitted by the step process src, or by Run itself (src = NoProcess).
EmitEvent(type, g, src) == Append(events, [type |-> type, guid |-> g, src |-> src])

\* transitionToRunning, first RPC: SetProperty(ContainerStateProperty, "running")
transitionToRunningState(g) == SetProperty(g, "state", StateRunning)

\* transitionToComplete, first RPC: SetProperty(ContainerResultProperty, json)
transitionToCompleteResult(g, result) == SetProperty(g, "result", MarshalResult(result))

\* transitionToComplete, second RPC: SetProperty(ContainerStateProperty, "completed")
transitionToCompleteState(g) == SetProperty(g, "state", StateCompleted)

(***************************************************************************)
(* Create                                                                  *)
(***************************************************************************)

\* exchanger.CreateInGarden: garden refuses a handle it already has.
CreateInGardenOutcomes(g) == IF host[g].exists THEN {FALSE} ELSE {TRUE, FALSE}

\* A Create without the state check.
CreateAcceptsAny(st) == TRUE

\* Whether Create accepts a record in state st.
CreateAccepts(st) == st = StateInitializing

\* Create(container) up to the return of CreateInGarden.
Create(c, g, st) ==
    /\ Callable(c)
    /\ ncalls' = ncalls + 1
    /\ LET call == NewCall("Create", g, st, FALSE, FALSE) IN
       IF ~CreateAccepts(st)
       THEN /\ Return(c, call, ErrInvalidTransition)
            /\ UNCHANGED host
       ELSE \E ok \in CreateInGardenOutcomes(g) :
              IF ok
              THEN /\ host' = [host EXCEPT ![g] = CreatedContainer]
                   /\ Goto(c, call, "initialize")
              ELSE /\ Return(c, call, ErrGarden)
                   /\ UNCHANGED host
    /\ UNCHANGED <<tracker, runningProcesses, procs, events, reconciler>>
    /\ UNCHANGED <<healthVars, actions>>

\* store.tracker.Initialize(container)
Initialize(g, st) == [tracker EXCEPT ![g] = st]

\* Create: store.tracker.Initialize(container), the container CreateInGarden
\* returned; return container, nil
CreateInitialize(c) ==
    /\ At(c, "Create", "initialize")
    /\ tracker' = Initialize(calls[c].guid, CreatedContainer.state)
    /\ Return(c, calls[c], Nil)
    /\ UNCHANGED <<host, runningProcesses, procs, ncalls, events, reconciler>>
    /\ UNCHANGED <<healthVars, actions>>

(***************************************************************************)
(* freeStepProcess, Stop, Destroy                                          *)
(***************************************************************************)

\* A freeStepProcess that leaves the handle in the table.
freeStepProcessTableKeeps(g) == runningProcesses

\* The table after freeStepProcess's critical section: delete(runningProcesses, guid)
freeStepProcessTable(g) == [runningProcesses EXCEPT ![g] = NoProcess]

\* process.Signal(os.Interrupt): ifrit hands the signal over asynchronously
\* and drops it when the process has exited.
Signal(p) ==
    IF p # NoProcess /\ procs[p].pc # "exited"
    THEN [procs EXCEPT ![p].sig = "pending"]
    ELSE procs

\* freeStepProcess(guid) by thread c's call, which goes on to position pc
\* holding the handle found (NoProcess if none).
freeStepProcess(c, call, pc) ==
    LET process == runningProcesses[call.guid] IN
    /\ runningProcesses' = freeStepProcessTable(call.guid)
    /\ procs' = Signal(process)
    /\ Goto(c, [call EXCEPT !.proc = process], pc)

\* Stop(guid) up to process.Wait()
Stop(c, g) ==
    /\ Callable(c)
    /\ ncalls' = ncalls + 1
    /\ LET call == NewCall("Stop", g, "", FALSE, FALSE) IN
       IF runningProcesses[g] = NoProcess
       THEN /\ Return(c, call, ErrContainerNotFound)
            /\ UNCHANGED <<runningProcesses, procs>>
       ELSE freeStepProcess(c, call, "wait")
    /\ UNCHANGED <<host, tracker, events, reconciler>>
    /\ UNCHANGED <<healthVars, actions>>

\* Stop: <-process.Wait(); return nil
StopWait(c) ==
    /\ At(c, "Stop", "wait")
    /\ procs[calls[c].proc].pc = "exited"
    /\ Return(c, calls[c], Nil)
    /\ UNCHANGED <<host, tracker, runningProcesses, procs, ncalls, events, reconciler>>
    /\ UNCHANGED <<healthVars, actions>>

\* Destroy(guid): store.freeStepProcess(logger, guid), its result ignored
Destroy(c, g) ==
    /\ Callable(c)
    /\ ncalls' = ncalls + 1
    /\ freeStepProcess(c, NewCall("Destroy", g, "", FALSE, FALSE), "destroy")
    /\ UNCHANGED <<host, tracker, events, reconciler>>
    /\ UNCHANGED <<healthVars, actions>>

DestroyErrIgnored(ok) == Nil

\* The error Destroy sees from gardenClient.Destroy(guid)
DestroyErr(ok) == IF ok THEN Nil ELSE ErrGarden

\* Destroy: err := store.gardenClient.Destroy(guid); if err != nil { return err }
DestroyInGarden(c) ==
    /\ At(c, "Destroy", "destroy")
    /\ LET g == calls[c].guid IN
       \E ok \in HostOutcomes(g) :
         /\ host' = IF ok THEN [host EXCEPT ![g] = NoContainer] ELSE host
         /\ IF DestroyErr(ok) = Nil
            THEN Goto(c, calls[c], "deinitialize")
            ELSE Return(c, calls[c], DestroyErr(ok))
    /\ UNCHANGED <<tracker, runningProcesses, procs, ncalls, events, reconciler>>
    /\ UNCHANGED <<healthVars, actions>>

\* store.tracker.Deinitialize(guid)
Deinitialize(g) == [tracker EXCEPT ![g] = ""]

\* Destroy: store.tracker.Deinitialize(guid); return nil
DestroyDeinitialize(c) ==
    /\ At(c, "Destroy", "deinitialize")
    /\ tracker' = Deinitialize(calls[c].guid)
    /\ Return(c, calls[c], Nil)
    /\ UNCHANGED <<host, runningProcesses, procs, ncalls, events, reconciler>>
    /\ UNCHANGED <<healthVars, actions>>

(***************************************************************************)
(* Run                                                                     *)
(***************************************************************************)

Unborn == {p \in ProcIds : procs[p].pc = "unborn"}

\* Run's container: its state, whether it has a Monitor, and whether its
\* action runs until cancelled (blocks) or may end by itself.
RunInputs(blocking) ==
    {in \in [st : RecordStates, mon : BOOLEAN, blocks : blocking] :
        in.st # StateCreated => ~in.mon /\ ~in.blocks}

\* A Run without the state check.
RunAcceptsAny(st) == TRUE

\* Whether Run accepts a record in state st.
RunAccepts(st) == st = StateCreated

\* ifrit.Invoke of the step process: ready is closed, step.Perform() has
\* started; hasStartedRunning already holds a value when there is no monitor.
NewStepProcess(g, mon, blocks) ==
    [pc |-> "loop", guid |-> g, mon |-> mon, blocks |-> blocks, sig |-> "none",
     hsr |-> IF mon THEN "empty" ELSE "full", step |-> "performing", err |-> "",
     result |-> EmptyResult]

\* Run(container) from gardenClient.Lookup to ifrit.Invoke, or to the
\* invalid-state branch
Run(c, g, in) ==
    /\ Callable(c)
    /\ RunAccepts(in.st) => Unborn # {}
    /\ ncalls' = ncalls + 1
    /\ LET call == NewCall("Run", g, in.st, in.mon, in.blocks) IN
       \E ok \in HostOutcomes(g) :
         IF ~ok
         THEN /\ Return(c, call, IF host[g].exists THEN ErrGarden ELSE ErrContainerNotFound)
              /\ UNCHANGED procs
         ELSE IF ~RunAccepts(in.st)
         THEN /\ Goto(c, call, "complete_result")
              /\ UNCHANGED procs
         ELSE LET p == CHOOSE q \in Unborn : \A r \in Unborn : q <= r IN
              /\ procs' = [procs EXCEPT ![p] = NewStepProcess(g, in.mon, in.blocks)]
              /\ Goto(c, [call EXCEPT !.proc = p], "store")
    /\ UNCHANGED <<host, tracker, runningProcesses, events, reconciler>>
    /\ UNCHANGED <<healthVars, actions>>

runStepProcessTableDrops(g, process) == runningProcesses

\* The table after runStepProcess's critical section: runningProcesses[guid] = process
runStepProcessTable(g, process) == [runningProcesses EXCEPT ![g] = process]

\* runStepProcess after ifrit.Invoke returned; Run returns nil
RunStore(c) ==
    /\ At(c, "Run", "store")
    /\ runningProcesses' = runStepProcessTable(calls[c].guid, calls[c].proc)
    /\ Return(c, calls[c], Nil)
    /\ UNCHANGED <<host, tracker, procs, ncalls, events, reconciler>>
    /\ UNCHANGED <<healthVars, actions>>

\* Run with an invalid state: transitionToComplete's SetProperty(result)
RunCompleteResult(c) ==
    /\ At(c, "Run", "complete_result")
    /\ LET g == calls[c].guid IN
       \E ok \in HostOutcomes(g) :
         IF ok
         THEN /\ host' = transitionToCompleteResult(g, FailedResult(ErrInvalidTransition))
              /\ Goto(c, calls[c], "complete_state")
         ELSE /\ Return(c, calls[c], ErrInvalidTransition)
              /\ UNCHANGED host
    /\ UNCHANGED <<tracker, runningProcesses, procs, ncalls, events, reconciler>>
    /\ UNCHANGED <<healthVars, actions>>

\* Run with an invalid state: transitionToComplete's SetProperty(state)
RunCompleteState(c) ==
    /\ At(c, "Run", "complete_state")
    /\ LET g == calls[c].guid IN
       \E ok \in HostOutcomes(g) :
         IF ok
         THEN /\ host' = transitionToCompleteState(g)
              /\ Goto(c, calls[c], "complete_emit")
         ELSE /\ Return(c, calls[c], ErrInvalidTransition)
              /\ UNCHANGED host
    /\ UNCHANGED <<tracker, runningProcesses, procs, ncalls, events, reconciler>>
    /\ UNCHANGED <<healthVars, actions>>

\* Run with an invalid state: Garden2Executor, EmitEvent; return transitionErr
RunCompleteEmit(c) ==
    /\ At(c, "Run", "complete_emit")
    /\ LET g == calls[c].guid IN
       \E ok \in HostOutcomes(g) :
         events' = IF ok THEN EmitEvent("container_complete", g, NoProcess) ELSE events
    /\ Return(c, calls[c], ErrInvalidTransition)
    /\ UNCHANGED <<host, tracker, runningProcesses, procs, ncalls, reconciler>>
    /\ UNCHANGED <<healthVars, actions>>

(***************************************************************************)
(* The step process (the RunFunc of runStepProcess)                        *)
(***************************************************************************)

Alive(p) == procs[p].pc \notin {"unborn", "exited"}

\* The RunFunc returns: its locals are gone; the goroutine performing the
\* step lives on, and so does what it holds.
Exited(p) ==
    [procs EXCEPT ![p].pc = "exited", ![p].mon = FALSE, ![p].sig = "none", ![p].hsr = "nil",
                  ![p].err = "", ![p].result = EmptyResult]

\* go func() { seqComplete <- step.Perform() }(): Perform returns, the
\* goroutine reaches the send (what it sends shows when it is received).  A
\* blocking action returns only once cancelled.
StepReturns(p) ==
    /\ procs[p].step = "performing"
    /\ procs[p].blocks => procs[p].sig = "received"
    /\ procs' = [procs EXCEPT ![p].step = "sending"]
    /\ UNCHANGED <<host, tracker, runningProcesses, calls, ncalls, events, reconciler>>
    /\ returned' = NoReturn
    /\ UNCHANGED <<healthVars, actions>>

\* The monitor step's first successful probe: a non-blocking send on
\* hasStartedRunning.  A cancelled monitor probes no more.
MonitorReady(p) ==
    /\ procs[p].mon
    /\ procs[p].step = "performing"
    /\ procs[p].hsr = "empty"
    /\ procs[p].sig # "received"
    /\ procs' = [procs EXCEPT ![p].hsr = "full"]
    /\ UNCHANGED <<host, tracker, runningProcesses, calls, ncalls, events, reconciler>>
    /\ returned' = NoReturn
    /\ UNCHANGED <<healthVars, actions>>

SignaledBreaksLoop(p) == [procs EXCEPT ![p].sig = "received", ![p].pc = "complete_result"]

\* signals = nil; monitorStep.Cancel() if there is a monitor; step.Cancel():
\* the cancel has reached the steps, and the loop goes round again.
Signaled(p) == [procs EXCEPT ![p].sig = "received"]

\* case <-signals: signals = nil; monitorStep.Cancel(); step.Cancel()
ProcSignaled(p) ==
    /\ procs[p].pc = "loop"
    /\ procs[p].sig = "pending"
    /\ procs' = Signaled(p)
    /\ UNCHANGED <<host, tracker, runningProcesses, calls, ncalls, events, reconciler>>
    /\ returned' = NoReturn
    /\ UNCHANGED <<healthVars, actions>>

\* The loop left with a failed transition to running.
FailedRunning(p) ==
    [procs EXCEPT ![p].pc = "complete_result", ![p].result = FailedResult(ErrGarden)]

\* A loop that forgets hasStartedRunning = nil.
StartedRunningKeepsChannel(p) == procs

\* case <-hasStartedRunning: hasStartedRunning = nil (the case is never
\* selected again)
StartedRunning(p) == [procs EXCEPT ![p].hsr = "nil"]

\* case <-hasStartedRunning: ...; transitionToRunning's SetProperty
ProcStartedRunning(p) ==
    /\ procs[p].pc = "loop"
    /\ procs[p].hsr = "full"
    /\ LET g == procs[p].guid IN
       \E ok \in HostOutcomes(g) :
         IF ok
         THEN /\ host' = transitionToRunningState(g)
              /\ procs' = [StartedRunning(p) EXCEPT ![p].pc = "running_emit"]
         ELSE /\ procs' = [FailedRunning(p) EXCEPT ![p].hsr = StartedRunning(p)[p].hsr]
              /\ UNCHANGED host
    /\ UNCHANGED <<tracker, runningProcesses, calls, ncalls, events, reconciler>>
    /\ returned' = NoReturn
    /\ UNCHANGED <<healthVars, actions>>

\* transitionToRunning: Garden2Executor, EmitEvent; back to the select
ProcRunningEmit(p) ==
    /\ procs[p].pc = "running_emit"
    /\ LET g == procs[p].guid IN
       \E ok \in HostOutcomes(g) :
         IF ok
         THEN /\ events' = EmitEvent("container_running", g, p)
              /\ procs' = [procs EXCEPT ![p].pc = "loop"]
         ELSE /\ procs' = FailedRunning(p)
              /\ UNCHANGED events
    /\ UNCHANGED <<host, tracker, runningProcesses, calls, ncalls, reconciler>>
    /\ returned' = NoReturn
    /\ UNCHANGED <<healthVars, actions>>

\* A loop that drops the step's error.
SeqCompleteResultDropsError(result, err) == result

\* The result the loop leaves with on case err := <-seqComplete
SeqCompleteResult(result, err) == IF err = Nil THEN result ELSE FailedResult(err)

\* case err := <-seqComplete: ...; break OUTER_LOOP
ProcSeqComplete(p) ==
    /\ procs[p].pc = "loop"
    /\ procs[p].step = "sending"
    /\ \E err \in {Nil, ErrStep} :
         procs' = [procs EXCEPT ![p].step = "done", ![p].pc = "complete_result",
                                ![p].err = err,
                                ![p].result = SeqCompleteResult(@, err)]
    /\ UNCHANGED <<host, tracker, runningProcesses, calls, ncalls, events, reconciler>>
    /\ returned' = NoReturn
    /\ UNCHANGED <<healthVars, actions>>

\* transitionToComplete's SetProperty(result); on an error the process returns
ProcCompleteResult(p) ==
    /\ procs[p].pc = "complete_result"
    /\ LET g == procs[p].guid IN
       \E ok \in HostOutcomes(g) :
         IF ok
         THEN /\ host' = transitionToCompleteResult(g, procs[p].result)
              /\ procs' = [procs EXCEPT ![p].pc = "complete_state"]
         ELSE /\ procs' = Exited(p)
              /\ UNCHANGED host
    /\ UNCHANGED <<tracker, runningProcesses, calls, ncalls, events, reconciler>>
    /\ returned' = NoReturn
    /\ UNCHANGED <<healthVars, actions>>

\* transitionToComplete's SetProperty(state)
ProcCompleteState(p) ==
    /\ procs[p].pc = "complete_state"
    /\ LET g == procs[p].guid IN
       \E ok \in HostOutcomes(g) :
         IF ok
         THEN /\ host' = transitionToCompleteState(g)
              /\ procs' = [procs EXCEPT ![p].pc = "complete_emit"]
         ELSE /\ procs' = Exited(p)
              /\ UNCHANGED host
    /\ UNCHANGED <<tracker, runningProcesses, calls, ncalls, events, reconciler>>
    /\ returned' = NoReturn
    /\ UNCHANGED <<healthVars, actions>>

\* transitionToComplete's Garden2Executor and EmitEvent; the process returns nil
ProcCompleteEmit(p) ==
    /\ procs[p].pc = "complete_emit"
    /\ LET g == procs[p].guid IN
       \E ok \in HostOutcomes(g) :
         events' = IF ok THEN EmitEvent("container_complete", g, p) ELSE events
    /\ procs' = Exited(p)
    /\ UNCHANGED <<host, tracker, runningProcesses, calls, ncalls, reconciler>>
    /\ returned' = NoReturn
    /\ UNCHANGED <<healthVars, actions>>

(***************************************************************************)
(* TrackContainers                                                         *)
(***************************************************************************)

\* store.List(nil): the containers of this owner, as Garden2Executor read
\* them; a container it cannot read is left out.
List(readable) ==
    [g \in Guids |->
        IF host[g].exists /\ host[g].owner = ContainerOwnerName /\ g \in readable
        THEN host[g].state ELSE ""]

\* case <-ticker.C(): containers, err := store.List(nil) succeeds
TrackList ==
    /\ reconciler.pc = "wait"
    /\ \E readable \in SUBSET Guids :
         reconciler' = [reconciler EXCEPT !.pc = "sync", !.err = FALSE,
                                         !.listed = List(readable)]
    /\ UNCHANGED <<host, tracker, runningProcesses, procs, calls, ncalls, events>>
    /\ returned' = NoReturn
    /\ UNCHANGED <<healthVars, actions>>

ListFailedSyncs == [reconciler EXCEPT !.err = TRUE, !.pc = "sync"]

\* if err != nil { logger.Error(...); continue }: back to the select
ListFailed == [reconciler EXCEPT !.err = TRUE]

\* case <-ticker.C(): store.List(nil) fails; logged, continue
TrackListFails ==
    /\ reconciler.pc = "wait"
    /\ reconciler' = ListFailed
    /\ UNCHANGED <<host, tracker, runningProcesses, procs, calls, ncalls, events>>
    /\ returned' = NoReturn
    /\ UNCHANGED <<healthVars, actions>>

\* tracker.SyncInitialized(containers): the tracked set becomes the list
SyncInitialized(containers) == containers

\* TrackContainers: store.tracker.SyncInitialized(containers)
TrackSync ==
    /\ reconciler.pc = "sync"
    /\ tracker' = SyncInitialized(reconciler.listed)
    /\ reconciler' = [reconciler EXCEPT !.pc = "wait", !.listed = [g \in Guids |-> ""]]
    /\ UNCHANGED <<host, runningProcesses, procs, calls, ncalls, events>>
    /\ returned' = NoReturn
    /\ UNCHANGED <<healthVars, actions>>

\* The reconciler's process is signalled.
TrackSignal ==
    /\ ~reconciler.signaled
    /\ reconciler.pc # "exited"
    /\ reconciler' = [reconciler EXCEPT !.signaled = TRUE]
    /\ UNCHANGED <<host, tracker, runningProcesses, procs, calls, ncalls, events>>
    /\ returned' = NoReturn
    /\ UNCHANGED <<healthVars, actions>>

\* case <-signals: break dance; return nil
TrackSignaled ==
    /\ reconciler.pc = "wait"
    /\ reconciler.signaled
    /\ reconciler' = [reconciler EXCEPT !.pc = "exited", !.ret = Nil]
    /\ UNCHANGED <<host, tracker, runningProcesses, procs, calls, ncalls, events>>
    /\ returned' = NoReturn
    /\ UNCHANGED <<healthVars, actions>>

(***************************************************************************)
(* The health supervisor (gardenhealth.Runner)                             *)
(***************************************************************************)

\* The frame of the Runner's steps.
RunnerFrame == UNCHANGED <<storeVars, actions>>

\* ifrit.Background(runner): the timeout timer is started and the first
\* health check is under way.
RunnerStart ==
    /\ runner.pc = "new"
    /\ runner' = [runner EXCEPT !.pc = "initial", !.probe = "running", !.nprobes = 1]
    /\ UNCHANGED <<setHealthyCalls, observed>>
    /\ RunnerFrame

\* checker.Healthcheck returns; a blocked health check never does.
HealthcheckReturns(outcome) ==
    /\ runner.pc \in {"initial", "steady"}
    /\ runner.probe = "running"
    /\ runner' = [runner EXCEPT !.probe = outcome]
    /\ UNCHANGED <<setHealthyCalls, observed>>
    /\ RunnerFrame

\* process.Signal(os.Interrupt)
RunnerSignal ==
    /\ runner.pc # "exited"
    /\ ~runner.signaled
    /\ runner' = [runner EXCEPT !.signaled = TRUE]
    /\ UNCHANGED <<setHealthyCalls, observed>>
    /\ RunnerFrame

RunnerExitsStays(err) == [runner EXCEPT !.err = err]

\* The task ends with err.
RunnerExits(err) == [runner EXCEPT !.pc = "exited", !.probe = "none", !.err = err]

\* Cancellation: the task handles the signal and exits with no error.
RunnerSignaled ==
    /\ runner.pc \in {"initial", "steady"}
    /\ runner.signaled
    /\ runner' = RunnerExits(Nil)
    /\ UNCHANGED <<setHealthyCalls, observed>>
    /\ RunnerFrame

EdgeAlways(healthy) == TRUE

\* Whether publishing healthy is a change of the published health status.
Edge(healthy) == ~runner.published \/ runner.healthy # healthy

\* The Runner observes the status healthy and publishes it, edge-triggered:
\* the calls of executorClient.SetHealthy after that.
Publish(healthy) ==
    IF Edge(healthy) THEN Append(setHealthyCalls, healthy) ELSE setHealthyCalls

\* The Runner in steady state after observing healthy; a success closes ready
\* if it is not closed yet.
Steady(healthy, ready) ==
    [runner EXCEPT !.pc = "steady", !.probe = "none", !.published = TRUE,
                   !.healthy = healthy, !.ready = ready]

\* Initial probe, timeout_timer fires first: terminate with a healthcheck
\* timeout error.
InitialTimeout ==
    /\ runner.pc = "initial"
    /\ runner.probe = "running"
    /\ runner' = RunnerExits(ErrHealthcheckTimeout)
    /\ UNCHANGED <<setHealthyCalls, observed>>
    /\ RunnerFrame

InitialFatalNever(outcome) == FALSE

\* Whether the initial probe's outcome ends the task.
InitialFatal(outcome) == outcome = "unrecoverable"

\* Initial probe, the health check's outcome is received.  After a
\* recoverable failure ready is either left for the first success or
\* closed at once.
InitialComplete ==
    /\ runner.pc = "initial"
    /\ runner.probe \in ProbeOutcomes
    /\ IF InitialFatal(runner.probe)
       THEN /\ runner' = RunnerExits(ErrUnrecoverable)
            /\ UNCHANGED <<setHealthyCalls, observed>>
       ELSE LET healthy == runner.probe = "ok" IN
            /\ \E ready \in IF healthy THEN {TRUE} ELSE BOOLEAN :
                  runner' = Steady(healthy, ready)
            /\ setHealthyCalls' = Publish(healthy)
            /\ observed' = Append(observed, healthy)
    /\ RunnerFrame

\* Steady state, check_timer ticks: a probe is run under timeout_timer.
CheckTick ==
    /\ runner.pc = "steady"
    /\ runner.probe = "none"
    /\ runner.nprobes < MaxProbes
    /\ runner' = [runner EXCEPT !.probe = "running", !.nprobes = @ + 1]
    /\ UNCHANGED <<setHealthyCalls, observed>>
    /\ RunnerFrame

\* Steady state, the health check's outcome is received.
SteadyComplete ==
    /\ runner.pc = "steady"
    /\ runner.probe \in ProbeOutcomes
    /\ IF runner.probe = "unrecoverable"
       THEN /\ runner' = RunnerExits(ErrUnrecoverable)
            /\ UNCHANGED <<setHealthyCalls, observed>>
       ELSE LET healthy == runner.probe = "ok" IN
            /\ runner' = Steady(healthy, runner.ready \/ healthy)
            /\ setHealthyCalls' = Publish(healthy)
            /\ observed' = Append(observed, healthy)
    /\ RunnerFrame

\* Steady state, timeout_timer fires before the probe returns: unhealthy;
\* the probe is given up.
SteadyTimeout ==
    /\ runner.pc = "steady"
    /\ runner.probe = "running"
    /\ runner' = Steady(FALSE, runner.ready)
    /\ setHealthyCalls' = Publish(FALSE)
    /\ observed' = Append(observed, FALSE)
    /\ RunnerFrame

NextHealth ==
    \/ RunnerStart
    \/ \E outcome \in ProbeOutcomes : HealthcheckReturns(outcome)
    \/ RunnerSignal
    \/ RunnerSignaled
    \/ InitialTimeout
    \/ InitialComplete
    \/ CheckTick
    \/ SteadyComplete
    \/ SteadyTimeout

(***************************************************************************)
(* ExecuteAction and its action runner                                     *)
(***************************************************************************)

\* The frame of the ExecuteActions' steps.
ActionFrame == UNCHANGED <<storeVars, healthVars>>

\* Perform: actionResult := make(chan error, 1);
\* go action.actionRunner.Perform(actionResult); the caller's record is
\* runOnce, and the inner action is one that blocks until cancelled or not.
PerformStart(a, runOnce, blocks) ==
    /\ actions[a].pc = "new"
    /\ actions' = [actions EXCEPT ![a].pc = "waiting", ![a].runOnce = runOnce,
                                  ![a].runOnce0 = runOnce, ![a].inner = "performing",
                                  ![a].blocks = blocks]
    /\ ActionFrame

\* actionRunner.Perform(actionResult) writes its single outcome; an inner
\* action that blocks does so only once it is cancelled.
InnerReturns(a, err) ==
    /\ actions[a].inner = "performing"
    /\ actions[a].blocks => actions[a].innerCancelled
    /\ actions' = [actions EXCEPT ![a].inner = "returned", ![a].innerErr = err,
                                  ![a].actionResult = err]
    /\ ActionFrame

\* The record after Perform has received err: Failed and FailureReason are
\* set on an error and left alone otherwise.
PerformRecord(runOnce, err) ==
    IF err # Nil THEN [Failed |-> TRUE, FailureReason |-> err] ELSE runOnce

\* Perform: err := <-actionResult; if err != nil { ... }
PerformReceives(a) ==
    /\ actions[a].pc = "waiting"
    /\ actions[a].actionResult # "empty"
    /\ LET err == actions[a].actionResult IN
       actions' = [actions EXCEPT ![a].pc = "sending", ![a].err = err,
                                  ![a].actionResult = "empty",
                                  ![a].runOnce = PerformRecord(@, err)]
    /\ ActionFrame

PerformOutcomePropagates(err) == err

\* What Perform writes to its result channel: result <- nil
PerformOutcome(err) == Nil

\* Perform: result <- nil; Perform returns
PerformSends(a) ==
    /\ actions[a].pc = "sending"
    /\ actions' = [actions EXCEPT ![a].pc = "done",
                                  ![a].result = Append(@, PerformOutcome(actions[a].err))]
    /\ ActionFrame

\* The body of ExecuteAction.Cancel: empty; the call is noted.
Cancelled(a) == [actions EXCEPT ![a].cancelCalled = TRUE]

\* ExecuteAction.Cancel(), on an action being or having been performed
Cancel(a) ==
    /\ actions[a].pc # "new"
    /\ ~actions[a].cancelCalled
    /\ actions' = Cancelled(a)
    /\ ActionFrame

NextAction ==
    \/ \E a \in ActionIds, runOnce \in RunOnces, blocks \in BOOLEAN :
          PerformStart(a, runOnce, blocks)
    \/ \E a \in ActionIds, err \in {Nil, ErrAction} : InnerReturns(a, err)
    \/ \E a \in ActionIds : PerformReceives(a)
    \/ \E a \in ActionIds : PerformSends(a)
    \/ \E a \in ActionIds : Cancel(a)

\* The calls and the step processes.
NextStore ==
    \/ \E c \in Threads, g \in Guids, st \in RecordStates : Create(c, g, st)
    \/ \E c \in Threads : CreateInitialize(c)
    \/ \E c \in Threads, g \in Guids, in \in RunInputs({FALSE}) : Run(c, g, in)
    \/ \E c \in Threads : RunStore(c)
    \/ \E c \in Threads : RunCompleteResult(c)
    \/ \E c \in Threads : RunCompleteState(c)
    \/ \E c \in Threads : RunCompleteEmit(c)
    \/ \E c \in Threads, g \in Guids : Stop(c, g)
    \/ \E c \in Threads : StopWait(c)
    \/ \E c \in Threads, g \in Guids : Destroy(c, g)
    \/ \E c \in Threads : DestroyInGarden(c)
    \/ \E c \in Threads : DestroyDeinitialize(c)
    \/ \E p \in ProcIds : StepReturns(p)
    \/ \E p \in ProcIds : MonitorReady(p)
    \/ \E p \in ProcIds : ProcSignaled(p)
    \/ \E p \in ProcIds : ProcStartedRunning(p)
    \/ \E p \in ProcIds : ProcRunningEmit(p)
    \/ \E p \in ProcIds : ProcSeqComplete(p)
    \/ \E p \in ProcIds : ProcCompleteResult(p)
    \/ \E p \in ProcIds : ProcCompleteState(p)
    \/ \E p \in ProcIds : ProcCompleteEmit(p)

\* The reconciler.
NextReconciler ==
    \/ TrackList
    \/ TrackListFails
    \/ TrackSync
    \/ TrackSignal
    \/ TrackSignaled

\* The calls that reach the tracker, and the reconciler.
NextTracker ==
    \/ \E c \in Threads, g \in Guids, st \in RecordStates : Create(c, g, st)
    \/ \E c \in Threads : CreateInitialize(c)
    \/ \E c \in Threads, g \in Guids : Destroy(c, g)
    \/ \E c \in Threads : DestroyInGarden(c)
    \/ \E c \in Threads : DestroyDeinitialize(c)
    \/ TrackList
    \/ TrackListFails
    \/ TrackSync
    \/ TrackSignal
    \/ TrackSignaled

Next == NextStore \/ NextReconciler \/ NextHealth \/ NextAction

\* The whole store.
Spec == Init /\ [][Next]_vars

(***************************************************************************)
(* Nothing in the store reads the tracker, and the reconciler reads only   *)
(* the host and writes only the tracker: every behaviour of Spec is one of *)
(* SpecStore with reconciler steps put in between, which change tracker    *)
(* and reconciler alone.  What is said of the other variables is checked   *)
(* under SpecStore; what is said of the tracker, under SpecTracker, whose  *)
(* calls are those that write the tracker or add and remove containers.    *)
(***************************************************************************)
SpecStore == Init /\ [][NextStore]_vars

SpecTracker == Init /\ [][NextTracker]_vars

\* The reconciler under the scheduler's fairness: a tick that is being
\* handled is handled to its end, and a select whose signals case is ready
\* again and again takes it in the end.
SpecTrackerFair ==
    /\ Init
    /\ [][NextTracker]_vars
    /\ WF_vars(TrackSync)
    /\ SF_vars(TrackSignaled)

(***************************************************************************)
(* Cancel during Run: each container is created; Run is called once per    *)
(* guid with an action that runs until cancelled, and Stop is called once  *)
(* Run has returned and the step process has made the transition to        *)
(* Running.  The Go scheduler runs every goroutine that can run: the step  *)
(* process, the goroutine performing the step (which returns from Perform  *)
(* once cancelled), and the caller waiting in Stop.                        *)
(***************************************************************************)
InitCancel == Init /\ \A g \in Guids : host[g].exists

RunToCancel(c, g, in) ==
    /\ \A p \in ProcIds : procs[p].guid # g
    /\ Run(c, g, in)

StopAfterReadiness(c, g) ==
    /\ \E p \in ProcIds :
          /\ runningProcesses[g] = p
          /\ procs[p].pc = "loop"
          /\ procs[p].hsr = "nil"
    /\ Stop(c, g)

\* The steps of the RunFunc of step process p.
ProcNext(p) ==
    \/ ProcSignaled(p)
    \/ ProcStartedRunning(p)
    \/ ProcRunningEmit(p)
    \/ ProcSeqComplete(p)
    \/ ProcCompleteResult(p)
    \/ ProcCompleteState(p)
    \/ ProcCompleteEmit(p)

NextCancel ==
    \/ \E c \in Threads, g \in Guids, in \in RunInputs({TRUE}) : RunToCancel(c, g, in)
    \/ \E c \in Threads : RunStore(c)
    \/ \E c \in Threads, g \in Guids : StopAfterReadiness(c, g)
    \/ \E c \in Threads : StopWait(c)
    \/ \E p \in ProcIds : StepReturns(p)
    \/ \E p \in ProcIds : MonitorReady(p)
    \/ \E p \in ProcIds : ProcNext(p)

SpecCancel ==
    /\ InitCancel
    /\ [][NextCancel]_vars
    /\ \A p \in ProcIds : WF_vars(ProcNext(p)) /\ WF_vars(StepReturns(p))
    /\ \A c \in Threads : WF_vars(StopWait(c)) /\ WF_vars(RunStore(c))

(***************************************************************************)
(* The health supervisor alone.  The Go scheduler runs the Runner whenever *)
(* it can take a step, and a select whose signal case is ready again and   *)
(* again takes it in the end.                                              *)
(***************************************************************************)
SpecHealth ==
    /\ Init
    /\ [][NextHealth]_vars
    /\ WF_vars(RunnerStart)
    /\ WF_vars(RunnerSignaled)

\* The ExecuteActions alone.
SpecAction == Init /\ [][NextAction]_vars

(***************************************************************************)
(* Lifecycle states and events (C1 - C5), under SpecStore                  *)
(***************************************************************************)

\* The positions in events of the events of a type that src emitted.
EventsBy(src, type) ==
    {i \in 1..Len(events) : events[i].src = src /\ events[i].type = type}

\* The positions in events of guid's events of a type.
EventsOf(g, type) ==
    {i \in 1..Len(events) : events[i].guid = g /\ events[i].type = type}

\* C1 (as claimed): while a container exists on the host, no step replaces
\* its executor:state by a state earlier in Reserved < Initializing < Created
\* < Running < Completed.
StateMonotonic ==
    [][\A g \in Guids :
         host[g].exists /\ host'[g].exists
            => StateRank(host'[g].state) >= StateRank(host[g].state)]_vars

\* C2 (as claimed): a container's ContainerComplete is emitted at most once,
\* and when a step process emits it a ContainerRunning of that container was
\* emitted before (Run's own emission on an invalid state needs none).
CompleteOnceAfterRunning ==
    \A g \in Guids :
        /\ Cardinality(EventsOf(g, "container_complete")) <= 1
        /\ \A i \in EventsOf(g, "container_complete") :
              events[i].src # NoProcess
                 => \E j \in EventsOf(g, "container_running") : j < i

\* C2 (amended): a step process emits ContainerComplete at most once, as the
\* last thing it does, and after any ContainerRunning it emitted; Run itself
\* emits nothing but ContainerComplete.  A ContainerRunning need not precede.
CompleteOncePerStepProcess ==
    /\ \A p \in ProcIds :
          /\ Cardinality(EventsBy(p, "container_complete")) <= 1
          /\ EventsBy(p, "container_complete") # {} => procs[p].pc = "exited"
          /\ \A i \in EventsBy(p, "container_complete"),
                j \in EventsBy(p, "container_running") : j < i
    /\ EventsBy(NoProcess, "container_running") = {}

\* C2's case: a step process emitted ContainerRunning and then ContainerComplete.
CompleteAfterRunningReached ==
    \E p \in ProcIds :
        /\ EventsBy(p, "container_running") # {}
        /\ EventsBy(p, "container_complete") # {}

\* The step process has left the select loop.
LeftLoop(p) == procs[p].pc \in {"complete_result", "complete_state", "complete_emit"}

\* C3 (as claimed): a monitored step process that has left its loop emitted
\* ContainerRunning if and only if a value was delivered on hasStartedRunning.
RunningIffReadiness ==
    \A p \in ProcIds :
        procs[p].mon /\ LeftLoop(p)
           => (procs[p].hsr # "empty" <=> EventsBy(p, "container_running") # {})

\* C3 (amended): a step process emits ContainerRunning at most once, and only
\* after it received the value from hasStartedRunning; a delivered value need
\* not be followed by the event.
RunningOnlyOnceAfterReadiness ==
    \A p \in ProcIds :
        /\ Cardinality(EventsBy(p, "container_running")) <= 1
        /\ EventsBy(p, "container_running") # {} => procs[p].hsr = "nil"

\* C3's case: a monitored step process, still in its loop, has emitted
\* ContainerRunning.
MonitoredRunningReached ==
    \E p \in ProcIds :
        /\ procs[p].mon
        /\ procs[p].pc = "loop"
        /\ EventsBy(p, "container_running") # {}

\* C4 (as claimed): a guid has at most one live step process at any time.
OneStepProcessPerGuid ==
    \A g \in Guids :
        Cardinality({p \in ProcIds : Alive(p) /\ procs[p].guid = g}) <= 1

\* C5 (as claimed): a completed container has its result set, and once its
\* state is Completed no step writes its state or result again or emits
\* another event (the ContainerComplete that announces the completion is the
\* first of the container).
CompletedIsFinal ==
    [][\A g \in Guids :
         /\ host'[g].exists /\ host'[g].state = StateCompleted => host'[g].result # ""
         /\ host[g].exists /\ host[g].state = StateCompleted /\ host'[g].exists
               => /\ host'[g].state = host[g].state
                  /\ host'[g].result = host[g].result
                  /\ events' # events
                        => /\ events'[Len(events')].type = "container_complete"
                           /\ EventsOf(g, "container_complete") = {}]_vars

(***************************************************************************)
(* The tracker and Create (C6, C7), under SpecTracker                      *)
(***************************************************************************)

\* A Destroy of guid has removed the host container and not yet
\* deinitialized the tracker.
Deinitializing(g) ==
    \E c \in Threads : At(c, "Destroy", "deinitialize") /\ calls[c].guid = g

\* C6 (as claimed): every guid the tracker holds has a container on the host
\* owned by this node, in every state in which no Destroy of the guid stands
\* between its removal of the container and its Deinitialize.
TrackedImpliesHosted ==
    \A g \in Guids :
        tracker[g] # "" /\ ~Deinitializing(g)
           => host[g].exists /\ host[g].owner = ContainerOwnerName

\* C7: a Create of a record not in state Initializing returns
\* ErrInvalidTransition; a Create that returns an error changed neither the
\* host nor the tracker; a Create that returns nil was given an Initializing
\* record and registers the guid as Created; and a host container appears
\* only in a Create of an Initializing record, which has not touched the
\* tracker by then.
CreateContract ==
    [][/\ returned'.op = "Create"
            => /\ returned'.st # StateInitializing => returned'.ret = ErrInvalidTransition
               /\ returned'.ret # Nil => host' = host /\ tracker' = tracker
               /\ returned'.ret = Nil
                     => /\ returned'.st = StateInitializing
                        /\ host' = host
                        /\ tracker' = [tracker EXCEPT ![returned'.guid] = StateCreated]
       /\ \A g \in Guids :
             ~host[g].exists /\ host'[g].exists
                => /\ tracker' = tracker
                   /\ \E c \in Threads :
                         /\ calls'[c].op = "Create"
                         /\ calls'[c].guid = g
                         /\ calls'[c].st = StateInitializing
                         /\ calls'[c].pc = "initialize"]_vars

\* C7's case: a Create of a record in state Created has returned
\* ErrInvalidTransition, with no container on the host and nothing tracked.
CreateRefusedReached ==
    /\ returned.op = "Create"
    /\ returned.st = StateCreated
    /\ returned.ret = ErrInvalidTransition
    /\ ~host[returned.guid].exists
    /\ tracker[returned.guid] = ""

(***************************************************************************)
(* Run on an invalid state and Stop (C8, C9), under SpecStore              *)
(***************************************************************************)

\* C8 (as claimed): when a Run of a record not in state Created has returned,
\* it returned ErrInvalidTransition and the container is Completed with the
\* failed result whose reason is the invalid-transition error.
RunInvalidCompletes ==
    returned.op = "Run" /\ returned.st # StateCreated
       => /\ returned.ret = ErrInvalidTransition
          /\ host[returned.guid].state = StateCompleted
          /\ host[returned.guid].result = MarshalResult(FailedResult(ErrInvalidTransition))

\* C8 (amended): a Run of a record not in state Created whose Lookup fails
\* returns the lookup's error (ErrContainerNotFound when the container is
\* gone) and writes nothing.  Otherwise it writes the failed result, then the
\* state Completed, then emits ContainerComplete, stops at the first of these
\* that fails, and returns ErrInvalidTransition in every case.  It starts no
\* step process and leaves the table alone.
RunInvalidContract ==
    [][/\ returned'.op = "Run" /\ returned'.st # StateCreated
            => /\ returned'.proc = NoProcess
               /\ procs' = procs
               /\ runningProcesses' = runningProcesses
               /\ host' = host
               /\ IF calls' = calls
                  THEN /\ returned'.ret =
                             IF host[returned'.guid].exists THEN ErrGarden
                             ELSE ErrContainerNotFound
                       /\ events' = events
                  ELSE /\ returned'.ret = ErrInvalidTransition
                       /\ \/ events' = events
                          \/ events' = Append(events, [type |-> "container_complete",
                                                       guid |-> returned'.guid,
                                                       src |-> NoProcess])
       /\ \A c \in Threads :
             calls'[c].op = "Run" /\ calls'[c].st # StateCreated
                => /\ calls'[c].proc = NoProcess
                   /\ calls'[c] # calls[c]
                         => LET g == calls'[c].guid IN
                            /\ procs' = procs
                            /\ runningProcesses' = runningProcesses
                            /\ events' = events
                            /\ CASE calls'[c].pc = "complete_result" ->
                                      host' = host /\ host[g].exists
                                 [] calls'[c].pc = "complete_state" ->
                                      host' = [host EXCEPT ![g].result =
                                          MarshalResult(FailedResult(ErrInvalidTransition))]
                                 [] calls'[c].pc = "complete_emit" ->
                                      host' = [host EXCEPT ![g].state = StateCompleted]
                                 [] OTHER -> FALSE]_vars

\* C8's case: a Run of a record not in state Created has returned
\* ErrInvalidTransition after the whole transition: the container is
\* Completed with the failed result, ContainerComplete is the last event, and
\* there is no step process and no table entry.
RunInvalidReached ==
    /\ returned.op = "Run"
    /\ returned.st # StateCreated
    /\ returned.ret = ErrInvalidTransition
    /\ host[returned.guid].state = StateCompleted
    /\ host[returned.guid].result = MarshalResult(FailedResult(ErrInvalidTransition))
    /\ events # <<>>
    /\ events[Len(events)] = [type |-> "container_complete", guid |-> returned.guid,
                              src |-> NoProcess]
    /\ runningProcesses[returned.guid] = NoProcess
    /\ \A p \in ProcIds : procs[p].pc = "unborn"

\* C9: a Stop that returns ErrContainerNotFound found no handle for the guid
\* and touched nothing; a Stop that goes on took the handle out of the table
\* in its first step, signalled its process, and no other call holds that
\* handle; and a Stop returns nil only when the process whose handle it took
\* has exited.
StopContract ==
    [][/\ returned'.op = "Stop"
            => IF returned'.ret = ErrContainerNotFound
               THEN /\ runningProcesses[returned'.guid] = NoProcess
                    /\ runningProcesses' = runningProcesses
                    /\ procs' = procs
               ELSE /\ returned'.ret = Nil
                    /\ returned'.proc # NoProcess
                    /\ procs'[returned'.proc].pc = "exited"
       /\ \A c \in Threads :
             calls'[c].op = "Stop" /\ calls'[c] # calls[c]
                => LET p == calls'[c].proc
                       g == calls'[c].guid
                   IN  /\ p # NoProcess
                       /\ runningProcesses[g] = p
                       /\ runningProcesses'[g] = NoProcess
                       /\ procs[p].pc # "exited" => procs'[p].sig = "pending"
                       /\ \A d \in Threads \ {c} : calls'[d].proc # p]_vars

\* C9's case: a Stop that took a handle has returned nil.
StopReturnedReached ==
    /\ returned.op = "Stop"
    /\ returned.ret = Nil
    /\ returned.proc # NoProcess
    /\ procs[returned.proc].pc = "exited"

(***************************************************************************)
(* Cancel during Run (C10), under SpecCancel                               *)
(***************************************************************************)

\* C10 (as claimed): once the Stop has returned nil, exactly one
\* ContainerComplete of the container has been emitted and the host state is
\* completed.
StopLeavesCompleted ==
    returned.op = "Stop" /\ returned.ret = Nil
       => /\ Cardinality(EventsOf(returned.guid, "container_complete")) = 1
          /\ host[returned.guid].state = StateCompleted

\* C10 (amended): the Stop eventually returns nil.  The loop's result is
\* Failed = false when the step tree returned nil and Failed = true with the
\* step's error otherwise.  At most one ContainerComplete is emitted; none is
\* when a host call of the transition to Completed fails; when the cancelled
\* process emits it, the host state is completed and the host result is the
\* loop's result.
StopCancelsRun ==
    /\ (\E c \in Threads : At(c, "Stop", "wait"))
          ~> (returned.op = "Stop" /\ returned.ret = Nil)
    /\ [][/\ \A g \in Guids : Cardinality(EventsOf(g, "container_complete"))' <= 1
          /\ \A p \in ProcIds :
                /\ procs[p].pc = "loop" /\ procs'[p].pc = "complete_result"
                      /\ procs[p].sig = "received"
                      => /\ procs'[p].err \in {Nil, ErrStep}
                         /\ procs'[p].result =
                               IF procs'[p].err = Nil THEN EmptyResult
                               ELSE FailedResult(procs'[p].err)
                /\ procs[p].sig = "received"
                      /\ EventsBy(p, "container_complete")' # EventsBy(p, "container_complete")
                      => /\ procs[p].err # ""
                         /\ host[procs[p].guid].state = StateCompleted
                         /\ host[procs[p].guid].result = MarshalResult(procs[p].result)]_vars

\* C10's case: the Stop has returned nil, one ContainerComplete was emitted,
\* the container is completed and its result carries the step's error.
StopCancelledReached ==
    /\ returned.op = "Stop"
    /\ returned.ret = Nil
    /\ Cardinality(EventsOf(returned.guid, "container_complete")) = 1
    /\ host[returned.guid].state = StateCompleted
    /\ host[returned.guid].result = MarshalResult(FailedResult(ErrStep))

(***************************************************************************)
(* Destroy (C11), under SpecStore                                          *)
(***************************************************************************)

\* C11: Destroy takes the handle of the guid out of the table and signals
\* its process, if any, and goes on to the host without waiting for it, the
\* host and the tracker untouched so far; it reaches tracker.Deinitialize
\* only by destroying the host container; it returns nil only from there,
\* the tracker then being the old one without the guid; and it returns an
\* error only as the host's refusal, host and tracker unchanged.  Nothing
\* else empties a tracker entry.
DestroyContract ==
    [][/\ \A c \in Threads :
            LET g == calls'[c].guid
                process == runningProcesses[g] IN
            /\ calls[c].op = "" /\ calls'[c].op = "Destroy" =>
                  /\ calls'[c].pc = "destroy"
                  /\ calls'[c].proc = process
                  /\ runningProcesses' = [runningProcesses EXCEPT ![g] = NoProcess]
                  /\ process # NoProcess /\ procs[process].pc # "exited" =>
                        procs'[process].sig = "pending"
                  /\ host' = host
                  /\ tracker' = tracker
            /\ calls[c].pc # "deinitialize" /\ calls'[c].pc = "deinitialize" =>
                  /\ At(c, "Destroy", "destroy")
                  /\ host[g].exists
                  /\ host' = [host EXCEPT ![g] = NoContainer]
                  /\ tracker' = tracker
            /\ calls[c].op = "Destroy" /\ calls'[c].op = "" =>
                  /\ returned'.op = "Destroy"
                  /\ IF returned'.ret = Nil
                     THEN /\ calls[c].pc = "deinitialize"
                          /\ tracker' = [tracker EXCEPT ![calls[c].guid] = ""]
                          /\ host' = host
                     ELSE /\ calls[c].pc = "destroy"
                          /\ returned'.ret = ErrGarden
                          /\ tracker' = tracker
                          /\ host' = host
       /\ \A g \in Guids :
            tracker[g] # "" /\ tracker'[g] = "" =>
               returned'.op = "Destroy" /\ returned'.guid = g /\ returned'.ret = Nil
      ]_vars

\* Destroy has returned nil while the process whose handle it took still
\* runs.
DestroyedWithoutWaiting ==
    /\ returned.op = "Destroy"
    /\ returned.ret = Nil
    /\ returned.proc # NoProcess
    /\ procs[returned.proc].pc # "exited"
    /\ tracker[returned.guid] = ""

(***************************************************************************)
(* The health supervisor (C12 - C14), under SpecHealth                     *)
(***************************************************************************)

\* s without the elements that repeat their predecessor.
RECURSIVE Coalesce(_)
Coalesce(s) ==
    IF Len(s) <= 1
    THEN s
    ELSE LET rest == Coalesce(Tail(s)) IN
         IF Head(s) = Head(rest) THEN rest ELSE <<Head(s)>> \o rest

\* C12: the calls of SetHealthy are the health statuses the Runner observed
\* with the repetitions left out, so no two calls in a row carry the same
\* value and ok, ok, fail, ok, ok publishes true, false, true; and a probe
\* that times out in steady state while the published status is healthy
\* publishes false.
EdgeTriggered ==
    /\ [](/\ setHealthyCalls = Coalesce(observed)
          /\ \A i \in 1..(Len(setHealthyCalls) - 1) :
                setHealthyCalls[i] # setHealthyCalls[i + 1]
          /\ observed = <<TRUE, TRUE, FALSE, TRUE, TRUE>> =>
                setHealthyCalls = <<TRUE, FALSE, TRUE>>)
    /\ [][/\ runner.pc = "steady"
           /\ runner.probe = "running"
           /\ runner.healthy
           /\ runner'.pc = "steady"
           /\ runner'.probe = "none"
           => setHealthyCalls' = Append(setHealthyCalls, FALSE)]_vars

\* The probes ok, ok, fail, ok, ok have published true, false, true.
HealthFlapReached ==
    /\ observed = <<TRUE, TRUE, FALSE, TRUE, TRUE>>
    /\ setHealthyCalls = <<TRUE, FALSE, TRUE>>

\* C13: a task that ends during the initial probe has not closed ready and
\* has published nothing; an unrecoverable outcome of a probe, the first
\* or a later one, is handled only by ending the task with that error
\* (unless the task is cancelled first); the task ends with the timeout
\* error only while the initial probe has not returned; and a task that
\* has ended stays as it is.
UnrecoverableEnds ==
    [][/\ runner.pc = "initial" /\ runner'.pc = "exited" =>
            /\ ~runner'.ready
            /\ setHealthyCalls' = <<>>
            /\ runner'.err \in {Nil, ErrHealthcheckTimeout, ErrUnrecoverable}
       /\ runner.probe = "unrecoverable" /\ runner'.probe # "unrecoverable" =>
            /\ runner'.pc = "exited"
            /\ runner'.err = ErrUnrecoverable \/ (runner.signaled /\ runner'.err = Nil)
            /\ UNCHANGED <<setHealthyCalls, observed>>
       /\ runner.pc # "exited" /\ runner'.pc = "exited" =>
            /\ runner'.err = ErrUnrecoverable => runner.probe = "unrecoverable"
            /\ runner'.err = ErrHealthcheckTimeout =>
                  runner.pc = "initial" /\ runner.probe = "running"
       /\ runner.pc = "exited" => runner' = runner
      ]_vars

\* The initial probe has returned an unrecoverable error and the task has
\* ended with it, ready not closed.
InitialUnrecoverableReached ==
    /\ runner.pc = "exited"
    /\ runner.err = ErrUnrecoverable
    /\ runner.nprobes = 1
    /\ ~runner.ready

CancelForwardedOnce ==
    [][\A p \in ProcIds :
         /\ procs[p].sig # "received" /\ procs'[p].sig = "received" =>
               /\ procs[p].sig = "pending"
               /\ procs[p].pc = "loop"
               /\ procs'[p].pc = "loop"
               /\ procs'[p].step = procs[p].step
               /\ UNCHANGED <<host, events>>
         /\ procs[p].sig = "received" =>
               procs'[p].sig = "received" \/ procs'[p].pc = "exited"
         /\ procs[p].pc # "complete_result" /\ procs'[p].pc = "complete_result" =>
               \/ /\ procs[p].pc = "loop"
                  /\ procs[p].step = "sending"
                  /\ procs'[p].step = "done"
               \/ /\ \/ procs[p].pc = "loop" /\ procs[p].hsr = "full"
                     \/ procs[p].pc = "running_emit"
                  /\ procs'[p].result = FailedResult(ErrGarden)
                  /\ procs'[p].step = procs[p].step
         /\ procs[p].pc # "complete_state" /\ procs'[p].pc = "complete_state" =>
               procs[p].pc = "complete_result"
      ]_vars

\* The loop forwarded a cancel, went on waiting and has now received the
\* step tree's completion.
CancelThenCompletionReached ==
    \E p \in ProcIds :
      /\ procs[p].sig = "received"
      /\ procs[p].step = "done"
      /\ procs[p].pc = "complete_result"

\* C16: a step process that has left its loop has received the completion
\* of the step tree, so the goroutine performing the step tree is not left
\* at its send.
CompletionConsumed ==
    \A p \in ProcIds :
      procs[p].pc \in {"complete_result", "complete_state", "complete_emit", "exited"} =>
         procs[p].step = "done"

(***************************************************************************)
(* The table of running processes (C20), under SpecStore                   *)
(***************************************************************************)

\* C20: the entry of a guid is emptied only by the first step of a Stop or
\* a Destroy of that guid, which takes the handle; it is filled only by a
\* Run of that guid storing the handle of the process it started, which
\* every Run that returns nil after starting one does; a step process that
\* ends leaves the table as it is; and a Stop that finds the handle of a
\* process that has ended takes it and goes on to wait (so returns nil)
\* instead of returning ErrContainerNotFound.
HandleLeavesOnlyByStopOrDestroy ==
    [][/\ \A g \in Guids :
            runningProcesses'[g] # runningProcesses[g] =>
               IF runningProcesses'[g] = NoProcess
               THEN \E c \in Threads :
                       /\ calls[c].op = ""
                       /\ calls'[c].op \in {"Stop", "Destroy"}
                       /\ calls'[c].guid = g
                       /\ calls'[c].proc = runningProcesses[g]
               ELSE \E c \in Threads :
                       /\ At(c, "Run", "store")
                       /\ calls[c].guid = g
                       /\ calls[c].proc = runningProcesses'[g]
                       /\ returned'.op = "Run"
       /\ returned'.op = "Run" /\ returned'.ret = Nil /\ returned'.proc # NoProcess =>
            runningProcesses'[returned'.guid] = returned'.proc
       /\ \A p \in ProcIds :
            procs[p].pc # "exited" /\ procs'[p].pc = "exited" =>
               runningProcesses' = runningProcesses
       /\ \A g \in Guids :
            /\ ncalls' = ncalls + 1
            /\ \/ \E c \in Threads :
                    calls[c].op = "" /\ calls'[c].op = "Stop" /\ calls'[c].guid = g
               \/ returned'.op = "Stop" /\ returned'.guid = g
            /\ runningProcesses[g] # NoProcess
            /\ procs[runningProcesses[g]].pc = "exited"
            => /\ returned'.op # "Stop"
               /\ \E c \in Threads :
                     /\ calls'[c].op = "Stop"
                     /\ calls'[c].pc = "wait"
                     /\ calls'[c].proc = runningProcesses[g]
               /\ runningProcesses'[g] = NoProcess
       /\ \A c \in Threads :
            At(c, "Stop", "wait") /\ calls'[c].op = "" =>
               returned'.op = "Stop" /\ returned'.ret = Nil
      ]_vars

\* A step process has completed on its own and its handle is still in the
\* table.
HandleOfEndedProcessReached ==
    \E g \in Guids :
      LET process == runningProcesses[g] IN
      /\ process # NoProcess
      /\ procs[process].pc = "exited"
      /\ EventsBy(process, "container_complete") # {}

(***************************************************************************)
(* The reconciler (C19), under SpecTrackerFair                             *)
(***************************************************************************)

\* C19 as stated: once the reconciler is cancelled it updates the tracker no
\* more.
NoSyncAfterCancel ==
    [][reconciler.signaled => ~(reconciler.pc = "sync" /\ reconciler'.pc = "wait")]_vars

\* C19: a tick whose List succeeded is followed by SyncInitialized of just
\* the listed containers and by nothing else; a failed List leaves the
\* tracker alone and the reconciler at its select; a cancelled reconciler
\* ends in the end; it ends only by taking the signal at its select, with
\* nil and without touching the tracker, and does nothing after that.
ReconcilerContract ==
    /\ reconciler.signaled ~> reconciler.pc = "exited"
    /\ [][
          /\ reconciler.pc = "wait" /\ reconciler'.pc = "sync" =>
                /\ \E readable \in SUBSET Guids : reconciler'.listed = List(readable)
                /\ tracker' = tracker
          /\ reconciler.pc = "sync" /\ reconciler'.pc # "sync" =>
                /\ reconciler'.pc = "wait"
                /\ tracker' = reconciler.listed
          /\ ~reconciler.err /\ reconciler'.err =>
                /\ reconciler.pc = "wait"
                /\ reconciler'.pc = "wait"
                /\ tracker' = tracker
          /\ reconciler.pc # "exited" /\ reconciler'.pc = "exited" =>
                /\ reconciler.signaled
                /\ reconciler.pc = "wait"
                /\ reconciler'.ret = Nil
                /\ tracker' = tracker
          /\ reconciler.pc = "exited" => reconciler' = reconciler
       ]_vars

\* The reconciler was cancelled after a failed List and has ended with nil.
ReconcilerEndedReached ==
    /\ reconciler.pc = "exited"
    /\ reconciler.signaled
    /\ reconciler.err
    /\ reconciler.ret = Nil

(***************************************************************************)
(* ExecuteAction (C17, C18), under SpecAction                              *)
(***************************************************************************)

\* C17: Perform writes nothing to its result channel before it is done and
\* exactly one value, nil, when it is; the record is the one Perform found
\* until the inner outcome is received, and from then on it has Failed =
\* true and the error's message as FailureReason if the inner action
\* returned an error, and is the one Perform found otherwise.
PerformWritesOneNil ==
    \A a \in ActionIds :
      /\ actions[a].result = IF actions[a].pc = "done" THEN <<Nil>> ELSE <<>>
      /\ actions[a].pc \in {"new", "waiting"} => actions[a].runOnce = actions[a].runOnce0
      /\ actions[a].pc \in {"sending", "done"} =>
            /\ actions[a].inner = "returned"
            /\ actions[a].runOnce =
                  IF actions[a].innerErr # Nil
                  THEN [Failed |-> TRUE, FailureReason |-> actions[a].innerErr]
                  ELSE actions[a].runOnce0

\* Both outcomes have happened: a Perform whose inner action failed on a
\* clean record, and one whose inner action succeeded on a record that had
\* failed before.
PerformBothOutcomesReached ==
    \E a, b \in ActionIds :
      /\ actions[a].pc = "done"
      /\ actions[a].innerErr = ErrAction
      /\ ~actions[a].runOnce0.Failed
      /\ actions[a].runOnce.Failed
      /\ actions[b].pc = "done"
      /\ actions[b].innerErr = Nil
      /\ actions[b].runOnce0.Failed
      /\ actions[b].runOnce = actions[b].runOnce0

\* C18: once Cancel has been called on an action that is being performed,
\* the inner step has been cancelled.
CancelForwarded ==
    \A a \in ActionIds :
      actions[a].cancelCalled /\ actions[a].inner = "performing" =>
         actions[a].innerCancelled

====
